---- MODULE Spec2Model ----
(***************************************************************************)
(* A model of mod_http2's bucket beam (h2_bucket_beam.c): one sender       *)
(* thread and one receiver thread moving buckets through send_list,        *)
(* hold_list and purge_list under one mutex and one condition variable.    *)
(*                                                                         *)
(* A step of the model is one critical section: from taking beam->lock to  *)
(* the next place where the code releases it (return, apr_thread_cond_wait,*)
(* the unlocked callback of report_consumption, the unlocked brigade       *)
(* destroy of recv_buffer_cleanup).  Teardown takes no lock in the code    *)
(* and is one step of the sender.                                          *)
(*                                                                         *)
(* The receiver hands h2_beam_receive an empty brigade on every call and   *)
(* owns the buckets it got until it destroys them.  The beam has a buffer  *)
(* bound, timeout 0 and all four callbacks registered; no beamer is        *)
(* registered.                                                             *)
(***************************************************************************)
EXTENDS Integers, Sequences, FiniteSets, TLC

\* ---------------------------------------------------------------- bounds
MaxLen == 2
MaxBrigade == 2
MaxBuckets == 2
MaxBuf == 2
MaxRead == 2

\* ------------------------------------------------------------- constants
NULL == 0
\* the n of a receiver bucket that is no proxy
NONE == -1
\* (apr_size_t)-1 on the narrowest build; only compared and subtracted from
APR_SIZE_MAX == 2147483647
tx_mem_limits == TRUE

APR_SUCCESS == "APR_SUCCESS"
APR_ECONNABORTED == "APR_ECONNABORTED"
APR_EAGAIN == "APR_EAGAIN"
APR_EOF == "APR_EOF"
APR_BLOCK_READ == "APR_BLOCK_READ"
APR_NONBLOCK_READ == "APR_NONBLOCK_READ"

\* ---------------------------------------------------------------- inputs
MetaTypes == {"EOS", "FLUSH", "ERROR"}
DataLens == 1..MaxLen
\* what a sender may put into a brigade: [type, length, refcount]
InputBuckets ==
    [type : {"HEAP"}, length : DataLens, refcount : {1}]
    \cup [type : {"FILE"}, length : {MaxLen}, refcount : {1}]
    \cup [type : {"EOS", "FLUSH"}, length : {0}, refcount : {1}]
Brigades == UNION {[1..n -> InputBuckets] : n \in 0..MaxBrigade}
BlockModes == {APR_BLOCK_READ, APR_NONBLOCK_READ}
ReadBytes == 0..MaxRead
BufSizes == {MaxBuf}
\* timeout 0: every wait is an apr_thread_cond_wait, without a time limit
Timeouts == {0}
CopyFiles == {FALSE}
\* the value (apr_off_t)APR_SIZE_MAX has: -1 where apr_size_t and apr_off_t
\* are both 64 bit, APR_SIZE_MAX where apr_off_t is the wider type
ReadAllValues == {-1, APR_SIZE_MAX}
MaxIds == MaxBuckets * MaxLen
BucketIds == 1..MaxIds

VARIABLES
    beam,       \* h2_bucket_beam: lists, counters, flags, policy, callbacks
    proxy,      \* the h2_beam_proxy structs alive: n -> [beam, bsender]
    lock,       \* holder of beam->lock: "free", "s", "r"
    waiting,    \* threads suspended on beam->change and not yet woken
    S,          \* sender thread: position and locals of its current call
    R,          \* receiver thread: position and locals of its current call
    held,       \* proxies (by n) of which the receiver holds a bucket
    freed,      \* how often each sender bucket has been freed
    nextId,     \* next sender bucket identity
    enq,        \* bytes and markers put into send_list so far
    recvLog,    \* what h2_beam_receive left in the receiver's brigades
    offered     \* buckets the sender has handed to h2_beam_send so far

vars == <<beam, proxy, lock, waiting, S, R, held, freed, nextId, enq,
          recvLog, offered>>

\* ------------------------------------------------------------- buckets
APR_BUCKET_IS_METADATA(b) == b.type \in MetaTypes
APR_BUCKET_IS_FILE(b) == b.type = "FILE"
APR_BUCKET_IS_MMAP(b) == b.type = "MMAP"
APR_BUCKET_IS_HEAP(b) == b.type = "HEAP"
APR_BUCKET_IS_EOS(b) == b.type = "EOS"
H2_BUCKET_IS_BEAM(b) == b.type = "BEAM"

Ids(list) == {list[i].id : i \in 1..Len(list)}

\* Every data byte and every marker put into send_list gets the next
\* number of one sequence; a bucket stands for the numbers of its bytes,
\* a marker for its own.
Width(b) == IF b.type \in MetaTypes THEN 1 ELSE b.length
Items(b) == [j \in 1..Width(b) |-> b.first + j - 1]

RECURSIVE Flat(_)
Flat(list) ==
    IF list = <<>> THEN <<>> ELSE Items(Head(list)) \o Flat(Tail(list))

RECURSIVE apr_brigade_length(_)
apr_brigade_length(bb) ==
    IF bb = <<>> THEN 0 ELSE Head(bb).length + apr_brigade_length(Tail(bb))

\* ------------------------------------------------------- beam accessors
RECURSIVE calc_buffered_list(_)
calc_buffered_list(list) ==
    IF list = <<>> THEN 0
    ELSE LET b == Head(list)
         IN (IF APR_BUCKET_IS_FILE(b) \/ APR_BUCKET_IS_MMAP(b)
             THEN 0 ELSE b.length) + calc_buffered_list(Tail(list))
calc_buffered(bm) == calc_buffered_list(bm.send_list)

calc_space_left(bm) ==
    IF bm.max_buf_size > 0
    THEN LET len == calc_buffered(bm)
         IN IF bm.max_buf_size > len THEN bm.max_buf_size - len ELSE 0
    ELSE APR_SIZE_MAX

buffer_is_empty(bm) == bm.recv_buffer = <<>> /\ bm.send_list = <<>>

\* apr_bucket_delete of every bucket of a list
RECURSIVE FreeAll(_, _)
FreeAll(f, list) ==
    IF list = <<>> THEN f
    ELSE FreeAll([f EXCEPT ![Head(list).id] = @ + 1], Tail(list))

\* a callback invoked by thread record t, with or without beam->lock held
Call(w, cb, locked) ==
    [w EXCEPT !.cbs = @ \cup {[cb |-> cb, locked |-> locked]}]

\* ---------------------------------------------------------------- sender
\* The sender's critical sections work on a record w holding what they
\* read and write: bm (the beam), bb (the caller's brigade), the locals
\* space_left, was_empty and rv, cbs (the callbacks invoked), the
\* bookkeeping freed, nextId, enq, and where the section ended:
\* at "ret" (unlock and return), "wait" (apr_thread_cond_wait) or
\* "io" (the unlocked byte-count callback), then with len.

h2_blist_cleanup(w, bl) ==
    [w EXCEPT !.freed = FreeAll(@, w.bm[bl]), !.bm[bl] = <<>>]

r_purge_sent(w) == h2_blist_cleanup(w, "purge_list")

\* the bucket b of the caller becomes a bucket of send_list
InsertTail(w, b) ==
    LET nb == [id |-> w.nextId, type |-> b.type,
               first |-> w.enq, length |-> b.length]
    IN [w EXCEPT !.bm.send_list = Append(@, nb),
                 !.nextId = @ + 1,
                 !.enq = @ + Width(b)]

RECURSIVE move_to_hold(_)
move_to_hold(w) ==
    IF w.bb = <<>> THEN w
    ELSE move_to_hold(InsertTail([w EXCEPT !.bb = Tail(@)], Head(w.bb)))

append_bucket(w) ==
    LET b == Head(w.bb)
        can_beam ==
            IF APR_BUCKET_IS_FILE(b)
            THEN ~w.bm.copy_files /\ b.refcount = 1
            ELSE IF APR_BUCKET_IS_MMAP(b) THEN ~w.bm.copy_files ELSE FALSE
        check_len ==
            IF APR_BUCKET_IS_FILE(b) \/ APR_BUCKET_IS_MMAP(b)
            THEN ~can_beam ELSE TRUE
        split == check_len /\ b.length > w.space_left
        \* apr_bucket_split leaves the rest in the caller's brigade
        b1 == IF split THEN [b EXCEPT !.length = w.space_left] ELSE b
        rest == IF split
                THEN <<[b EXCEPT !.length = @ - w.space_left]>> \o Tail(w.bb)
                ELSE Tail(w.bb)
        w1 == [w EXCEPT !.bb = rest,
                        !.space_left = IF check_len THEN @ - b1.length ELSE @]
        \* what is neither heap nor beamed is read into a heap bucket
        b2 == IF APR_BUCKET_IS_HEAP(b1) \/ can_beam
              THEN b1 ELSE [b1 EXCEPT !.type = "HEAP"]
    IN IF w.bm.aborted THEN [w EXCEPT !.rv = APR_ECONNABORTED]
       ELSE IF APR_BUCKET_IS_METADATA(b)
       THEN InsertTail([w EXCEPT !.bb = Tail(@)], b)
       ELSE IF b1.length = 0 THEN w1
       ELSE [InsertTail(w1, b2) EXCEPT !.bm.sent_bytes = @ + b2.length]

\* a wait_not_full that suspends without calling send_block_cb
wait_not_full_NoCallback(w, rv0) ==
    LET left == calc_space_left(w.bm)
    IN IF left = 0 /\ rv0 = APR_SUCCESS
       THEN IF w.bm.aborted
            THEN [w EXCEPT !.rv = APR_ECONNABORTED, !.space_left = left]
            ELSE IF w.block # APR_BLOCK_READ
            THEN [w EXCEPT !.rv = APR_EAGAIN, !.space_left = left]
            ELSE [w EXCEPT !.at = "wait"]
       ELSE [w EXCEPT !.rv = rv0, !.space_left = left]

\* a wait_not_full that does not look at block
wait_not_full_IgnoresBlock(w, rv0) ==
    LET left == calc_space_left(w.bm)
    IN IF left = 0 /\ rv0 = APR_SUCCESS
       THEN IF w.bm.aborted
            THEN [w EXCEPT !.rv = APR_ECONNABORTED, !.space_left = left]
            ELSE [(IF w.bm.send_block_cb
                   THEN Call(w, "send_block_cb", TRUE) ELSE w)
                  EXCEPT !.at = "wait"]
       ELSE [w EXCEPT !.rv = rv0, !.space_left = left]

\* From the loop head of wait_not_full, entered with status rv0 (that of
\* the apr_thread_cond_wait just left, APR_SUCCESS on the first pass).
wait_not_full(w, rv0) ==
    LET left == calc_space_left(w.bm)
    IN IF left = 0 /\ rv0 = APR_SUCCESS
       THEN IF w.bm.aborted
            THEN [w EXCEPT !.rv = APR_ECONNABORTED, !.space_left = left]
            ELSE IF w.block # APR_BLOCK_READ
            THEN [w EXCEPT !.rv = APR_EAGAIN, !.space_left = left]
            ELSE [(IF w.bm.send_block_cb
                   THEN Call(w, "send_block_cb", TRUE) ELSE w)
                  EXCEPT !.at = "wait"]
       ELSE [w EXCEPT !.rv = rv0, !.space_left = left]

report_consumption(w, locked) ==
    LET len == w.bm.received_bytes - w.bm.cons_bytes_reported
    IN IF len > 0
       THEN IF w.bm.cons_io_cb
            THEN IF locked
                 THEN [Call(w, "cons_io_cb", FALSE)
                       EXCEPT !.at = "io", !.len = len]
                 ELSE [Call(w, "cons_io_cb", FALSE)
                       EXCEPT !.bm.cons_bytes_reported = @ + len]
            ELSE [w EXCEPT !.bm.cons_bytes_reported = @ + len]
       ELSE w

\* after the unlocked callback: lock again, add the len computed before
report_consumption_relock(w) ==
    [w EXCEPT !.bm.cons_bytes_reported = @ + w.len, !.at = "ret"]

\* an end of h2_beam_send that never calls was_empty_cb
SendEnd_NoCallback(w) ==
    report_consumption([w EXCEPT !.bcast = TRUE], TRUE)

\* h2_beam_send from the end of its loop to report_consumption
SendEnd(w) ==
    LET w1 == IF w.was_empty /\ w.bm.was_empty_cb /\ ~buffer_is_empty(w.bm)
              THEN Call(w, "was_empty_cb", TRUE) ELSE w
    IN report_consumption([w1 EXCEPT !.bcast = TRUE], TRUE)

\* the loop of h2_beam_send, entered at its head
RECURSIVE SendLoop(_)
\* the loop of h2_beam_send, entered after wait_not_full
SendAfterWait(w) ==
    IF w.at = "wait" THEN w
    ELSE IF w.rv # APR_SUCCESS THEN SendEnd(w)
    ELSE SendLoop(append_bucket(
             [w EXCEPT !.was_empty = buffer_is_empty(w.bm)]))

SendLoop(w) ==
    IF w.bb = <<>> \/ w.rv # APR_SUCCESS THEN SendEnd(w)
    ELSE IF w.space_left <= 0
    THEN LET w1 == r_purge_sent(w)
             w2 == IF w1.was_empty /\ w1.bm.was_empty_cb
                   THEN Call(w1, "was_empty_cb", TRUE) ELSE w1
         IN SendAfterWait(wait_not_full(w2, APR_SUCCESS))
    ELSE SendLoop(append_bucket(w))

\* a send that looks at closed before it looks at aborted
h2_beam_send_ClosedFirst(w) ==
    LET w1 == r_purge_sent(w)
    IN IF w1.bm.closed
       THEN report_consumption(
                [move_to_hold(w1) EXCEPT !.rv = APR_SUCCESS], TRUE)
       ELSE IF w1.bm.aborted
       THEN report_consumption(
                [move_to_hold(w1) EXCEPT !.rv = APR_ECONNABORTED], TRUE)
       ELSE SendLoop([w1 EXCEPT !.was_empty = buffer_is_empty(w1.bm),
                                !.space_left = calc_space_left(w1.bm)])

h2_beam_send(w) ==
    LET w1 == r_purge_sent(w)
    IN IF w1.bm.aborted
       THEN report_consumption(
                [move_to_hold(w1) EXCEPT !.rv = APR_ECONNABORTED], TRUE)
       ELSE IF w1.bm.closed
       THEN report_consumption(
                [move_to_hold(w1) EXCEPT !.rv = APR_SUCCESS], TRUE)
       ELSE SendLoop([w1 EXCEPT !.was_empty = buffer_is_empty(w1.bm),
                                !.space_left = calc_space_left(w1.bm)])

\* h2_beam_close, called by the sender, after its report_consumption
CloseEnd(w) ==
    LET w1 == IF w.bm.was_empty_cb /\ buffer_is_empty(w.bm)
              THEN Call(w, "was_empty_cb", TRUE) ELSE w
    IN [w1 EXCEPT !.bcast = TRUE, !.at = "ret",
                  !.rv = IF w.bm.aborted THEN APR_ECONNABORTED
                         ELSE APR_SUCCESS]

h2_beam_close_sender(w) ==
    LET w1 == report_consumption(
                  r_purge_sent([w EXCEPT !.bm.closed = TRUE]), TRUE)
    IN IF w1.at = "io" THEN w1 ELSE CloseEnd(w1)

h2_beam_abort_sender(w) ==
    LET w1 == [w EXCEPT !.bm.aborted = TRUE]
        w2 == IF w1.bm.was_empty_cb /\ buffer_is_empty(w1.bm)
              THEN Call(w1, "was_empty_cb", TRUE) ELSE w1
        w3 == [w2 EXCEPT !.bm.cons_ev_cb = FALSE, !.bm.cons_io_cb = FALSE]
        w4 == h2_blist_cleanup(r_purge_sent(w3), "send_list")
    IN [report_consumption(w4, TRUE) EXCEPT !.bcast = TRUE]

\* From the loop head of wait_empty, entered with status rv0.
wait_empty(w, rv0) ==
    IF ~buffer_is_empty(w.bm) /\ rv0 = APR_SUCCESS
    THEN IF w.block # APR_BLOCK_READ
         THEN [w EXCEPT !.rv = APR_EAGAIN]
         ELSE [w EXCEPT !.at = "wait"]
    ELSE [w EXCEPT !.rv = rv0]

\* -------------------------------------------------------------- receiver
\* The receiver's critical sections work on a record w as well: bm, px
\* (the proxy structs), bb (the caller's brigade), readbytes, remain,
\* transferred, transferred_buckets, rv, cbs, rbb (a brigade to destroy
\* unlocked) and where the section ended: "ret", "wait", "rbc" (the
\* unlocked apr_brigade_destroy of recv_buffer_cleanup), "spin".

Find(list, id) == CHOOSE i \in 1..Len(list) : list[i].id = id

\* the buckets h2_beam_emitted takes out of hold_list for target id
RECURSIVE EmittedMoves(_, _)
EmittedMoves(hold, id) ==
    IF hold = <<>> THEN <<>>
    ELSE IF Head(hold).id = id THEN <<Head(hold)>>
    ELSE IF APR_BUCKET_IS_METADATA(Head(hold))
    THEN <<Head(hold)>> \o EmittedMoves(Tail(hold), id)
    ELSE EmittedMoves(Tail(hold), id)

\* an h2_beam_emitted that purges every bucket of hold_list up to the target
h2_beam_emitted_PurgesAll(w, n) ==
    LET bs == w.px[n].bsender
        w1 == [w EXCEPT !.bm.proxies = SelectSeq(@, LAMBDA m : m # n)]
        found == bs # NULL /\ bs \in Ids(w.bm.hold_list)
        at == Find(w.bm.hold_list, bs)
    IN [(IF found
         THEN [w1 EXCEPT
                 !.bm.hold_list = SubSeq(@, at + 1, Len(@)),
                 !.bm.purge_list = @ \o SubSeq(w.bm.hold_list, 1, at),
                 !.px[n].bsender = NULL]
         ELSE w1)
        EXCEPT !.bcast = TRUE]

\* an h2_beam_emitted without its apr_thread_cond_broadcast
h2_beam_emitted_NoBroadcast(w, n) ==
    LET bs == w.px[n].bsender
        w1 == [w EXCEPT !.bm.proxies = SelectSeq(@, LAMBDA m : m # n)]
        found == bs # NULL /\ bs \in Ids(w.bm.hold_list)
        moved == EmittedMoves(w.bm.hold_list, bs)
    IN IF found
       THEN [w1 EXCEPT
               !.bm.hold_list = SelectSeq(@, LAMBDA b : b.id \notin Ids(moved)),
               !.bm.purge_list = @ \o moved,
               !.px[n].bsender = NULL]
       ELSE w1

\* an h2_beam_emitted that links into purge_list without unlinking
h2_beam_emitted_NoRemove(w, n) ==
    LET bs == w.px[n].bsender
        w1 == [w EXCEPT !.bm.proxies = SelectSeq(@, LAMBDA m : m # n)]
        found == bs # NULL /\ bs \in Ids(w.bm.hold_list)
        moved == EmittedMoves(w.bm.hold_list, bs)
    IN [(IF found
         THEN [w1 EXCEPT
                 !.bm.purge_list = @ \o moved,
                 !.px[n].bsender = NULL]
         ELSE w1)
        EXCEPT !.bcast = TRUE]

\* an h2_beam_emitted that deletes what it takes out of hold_list
h2_beam_emitted_Deletes(w, n) ==
    LET bs == w.px[n].bsender
        w1 == [w EXCEPT !.bm.proxies = SelectSeq(@, LAMBDA m : m # n)]
        found == bs # NULL /\ bs \in Ids(w.bm.hold_list)
        moved == EmittedMoves(w.bm.hold_list, bs)
    IN [(IF found
         THEN [w1 EXCEPT
                 !.bm.hold_list = SelectSeq(@, LAMBDA b : b.id \notin Ids(moved)),
                 !.freed = FreeAll(@, moved),
                 !.px[n].bsender = NULL]
         ELSE w1)
        EXCEPT !.bcast = TRUE]

\* h2_beam_emitted for proxy n, the lock taken and released inside
h2_beam_emitted(w, n) ==
    LET bs == w.px[n].bsender
        w1 == [w EXCEPT !.bm.proxies = SelectSeq(@, LAMBDA m : m # n)]
        found == bs # NULL /\ bs \in Ids(w.bm.hold_list)
        moved == EmittedMoves(w.bm.hold_list, bs)
    IN [(IF found
         THEN [w1 EXCEPT
                 !.bm.hold_list = SelectSeq(@, LAMBDA b : b.id \notin Ids(moved)),
                 !.bm.purge_list = @ \o moved,
                 !.px[n].bsender = NULL]
         ELSE w1)
        EXCEPT !.bcast = TRUE]

\* what counts a proxy's refcount: the receiver's buckets and those of
\* recv_buffer and of a brigade being destroyed
Refs(w, n) ==
    (IF n \in w.held THEN 1 ELSE 0)
    + Cardinality({i \in 1..Len(w.bm.recv_buffer) : w.bm.recv_buffer[i].n = n})
    + Cardinality({i \in 1..Len(w.rbb) : w.rbb[i].n = n})

\* beam_bucket_destroy after the reference in question is gone from w
beam_bucket_destroy(w, n) ==
    IF n = NONE \/ Refs(w, n) > 0 THEN w
    ELSE LET w1 == IF w.px[n].beam THEN h2_beam_emitted(w, n) ELSE w
         IN [w1 EXCEPT !.px = [m \in DOMAIN @ \ {n} |-> @[m]]]

recv_buffer_cleanup(w) ==
    IF w.bm.recv_buffer # <<>>
    THEN [w EXCEPT !.rbb = w.bm.recv_buffer,
                   !.bm.recv_buffer = <<>>,
                   !.bm.received_bytes =
                       @ + apr_brigade_length(w.bm.recv_buffer),
                   !.at = "rbc"]
    ELSE w

\* recv_buffer_cleanup after its unlocked apr_brigade_destroy
recv_buffer_cleanup_relock(w) ==
    LET w1 == [w EXCEPT !.bcast = TRUE]
    IN IF w1.bm.cons_ev_cb THEN Call(w1, "cons_ev_cb", TRUE) ELSE w1

\* an end of h2_beam_abort that leaves out the broadcast
h2_beam_abort_end_NoBroadcast(w) == [w EXCEPT !.at = "ret"]

h2_beam_abort_end(w) == [w EXCEPT !.bcast = TRUE, !.at = "ret"]

h2_beam_abort_receiver(w) ==
    LET w1 == recv_buffer_cleanup([w EXCEPT !.bm.aborted = TRUE])
    IN IF w1.at = "rbc" THEN w1 ELSE h2_beam_abort_end(w1)

\* a receiver's close that leaves aborted as it is
h2_beam_close_end_NoAbort(w) ==
    [w EXCEPT !.rv = IF w.bm.aborted THEN APR_ECONNABORTED ELSE APR_SUCCESS,
              !.at = "ret"]

h2_beam_close_end(w) ==
    [w EXCEPT !.bm.aborted = TRUE, !.rv = APR_ECONNABORTED, !.at = "ret"]

h2_beam_close_receiver(w) ==
    LET w1 == recv_buffer_cleanup([w EXCEPT !.bm.closed = TRUE])
    IN IF w1.at = "rbc" THEN w1 ELSE h2_beam_close_end(w1)

\* From the loop head of wait_not_empty, entered with status rv0;
\* "transfer" is the goto of h2_beam_receive after APR_SUCCESS.
wait_not_empty(w, rv0) ==
    IF buffer_is_empty(w.bm) /\ rv0 = APR_SUCCESS
    THEN IF w.bm.aborted THEN [w EXCEPT !.rv = APR_ECONNABORTED, !.at = "ret"]
         ELSE IF w.bm.closed THEN [w EXCEPT !.rv = APR_EOF, !.at = "ret"]
         ELSE IF w.block # APR_BLOCK_READ
         THEN [w EXCEPT !.rv = APR_EAGAIN, !.at = "ret"]
         ELSE [w EXCEPT !.at = "wait"]
    ELSE IF rv0 # APR_SUCCESS THEN [w EXCEPT !.rv = rv0, !.at = "ret"]
    ELSE [w EXCEPT !.at = "transfer"]

\* first loop of h2_beam_receive: from recv_buffer into the brigade
RECURSIVE DrainRecvBuffer(_)
DrainRecvBuffer(w) ==
    IF ~(w.remain >= 0 /\ w.bm.recv_buffer # <<>>) THEN w
    ELSE LET brecv == Head(w.bm.recv_buffer)
         IN IF brecv.length > 0 /\ w.remain <= 0 THEN w
            ELSE DrainRecvBuffer(
                     [w EXCEPT !.bm.recv_buffer = Tail(@),
                               !.bb = Append(@, brecv),
                               !.remain = @ - brecv.length,
                               !.transferred = @ + 1])

\* the receiver's copy of a metadata bucket, its file bucket, its proxy
RecvBucket(bsender, type, n) ==
    [id |-> bsender.id, type |-> type, first |-> bsender.first,
     length |-> bsender.length, n |-> n]

\* second loop of h2_beam_receive: from send_list, no beamer registered
RECURSIVE DrainSendList(_)
DrainSendList(w) ==
    IF ~(w.remain >= 0 /\ w.bm.send_list # <<>>) THEN w
    ELSE
    LET bsender == Head(w.bm.send_list)
        \* APR_BUCKET_REMOVE(bsender); H2_BLIST_INSERT_TAIL(&hold_list, ..)
        wh == [w EXCEPT !.bm.send_list = Tail(@),
                        !.bm.hold_list = Append(@, bsender)]
    IN IF bsender.length > 0 /\ w.remain <= 0 THEN w
       ELSE IF APR_BUCKET_IS_METADATA(bsender)
       THEN DrainSendList(
                [wh EXCEPT
                   !.bm.close_sent = IF APR_BUCKET_IS_EOS(bsender)
                                     THEN TRUE ELSE @,
                   !.transferred_buckets = @ + 1,
                   !.bb = Append(@, RecvBucket(bsender, bsender.type, NONE)),
                   !.transferred = @ + 1])
       ELSE IF bsender.length = 0 THEN DrainSendList(wh)
       ELSE IF APR_BUCKET_IS_FILE(bsender)
       THEN DrainSendList(
                [wh EXCEPT
                   !.bb = Append(@, RecvBucket(bsender, "FILE", NONE)),
                   !.remain = @ - bsender.length,
                   !.bm.received_bytes = @ + bsender.length,
                   !.transferred = @ + 1,
                   !.transferred_buckets = @ + 1])
       ELSE LET n == w.bm.buckets_sent
            IN DrainSendList(
                [wh EXCEPT
                   !.bm.buckets_sent = @ + 1,
                   !.bm.proxies = Append(@, n),
                   !.px = [m \in DOMAIN @ \cup {n} |->
                             IF m = n
                             THEN [beam |-> TRUE, bsender |-> bsender.id]
                             ELSE @[m]],
                   !.bm.received_bytes = @ + bsender.length,
                   !.transferred_buckets = @ + 1,
                   !.bb = Append(@, RecvBucket(bsender, "BEAM", n)),
                   !.remain = @ - bsender.length,
                   !.transferred = @ + 1])

h2_beam_bucket_mem_used(w, b) ==
    LET bs == w.px[b.n].bsender
        inhold == {i \in 1..Len(w.bm.hold_list) : w.bm.hold_list[i].id = bs}
    IN IF bs # NULL
          /\ \E i \in inhold :
                 APR_BUCKET_IS_FILE(w.bm.hold_list[i])
                 \/ APR_BUCKET_IS_MMAP(w.bm.hold_list[i])
       THEN 0 ELSE b.length

bucket_mem_used(w, b) ==
    IF APR_BUCKET_IS_FILE(b) \/ APR_BUCKET_IS_MMAP(b) THEN 0
    ELSE IF H2_BUCKET_IS_BEAM(b) THEN h2_beam_bucket_mem_used(w, b)
    ELSE b.length

\* the loop that puts back what was too much: i is the bucket looked at,
\* remain what is left of readbytes before it
RECURSIVE PutBackFrom(_, _, _)
PutBackFrom(w, i, remain) ==
    IF i > Len(w.bb) THEN w
    ELSE LET brecv == w.bb[i]
             r == remain - (IF tx_mem_limits THEN bucket_mem_used(w, brecv)
                            ELSE brecv.length)
             point == brecv.length + r
             head == [brecv EXCEPT !.length = point]
             tail == [brecv EXCEPT !.first = @ + point, !.length = @ - point]
         IN IF r < 0
            THEN \* apr_bucket_split, then apr_brigade_split_ex, which
                 \* empties the brigade it is given before filling it
                 [w EXCEPT !.bb = SubSeq(w.bb, 1, i - 1) \o <<head>>,
                           !.bm.recv_buffer =
                               <<tail>> \o SubSeq(w.bb, i + 1, Len(w.bb))]
            ELSE PutBackFrom(w, i + 1, r)

\* a put-back that forgets the part split off
PutBack_DropsTail(w) ==
    IF w.remain < 0
    THEN [PutBackFrom([w EXCEPT !.remain = w.readbytes], 1, w.readbytes)
          EXCEPT !.bm.recv_buffer = w.bm.recv_buffer]
    ELSE w

PutBack(w) ==
    IF w.remain < 0
    THEN PutBackFrom([w EXCEPT !.remain = w.readbytes], 1, w.readbytes)
    ELSE w

\* h2_beam_receive from its label transfer
RECURSIVE Transfer(_)
Transfer(w) ==
    IF w.bm.aborted
    THEN LET w1 == recv_buffer_cleanup(w)
         IN IF w1.at = "rbc" THEN w1
            ELSE [w1 EXCEPT !.rv = APR_ECONNABORTED, !.at = "ret"]
    ELSE
    LET w1 == PutBack(DrainSendList(DrainRecvBuffer(w)))
        w2 == IF w1.bm.closed /\ buffer_is_empty(w1.bm) /\ ~w1.bm.close_sent
              THEN [w1 EXCEPT
                      !.bb = Append(@, [id |-> NULL, type |-> "EOS",
                                        first |-> 0, length |-> 0,
                                        n |-> NONE]),
                      !.bm.close_sent = TRUE,
                      !.transferred = @ + 1]
              ELSE w1
        w3 == IF w2.bm.cons_ev_cb /\ w2.transferred_buckets > 0
              THEN Call(w2, "cons_ev_cb", TRUE) ELSE w2
        w4 == wait_not_empty(w3, APR_SUCCESS)
    IN IF w3.transferred > 0
       THEN [w3 EXCEPT !.bcast = TRUE, !.rv = APR_SUCCESS, !.at = "ret"]
       ELSE IF w3.bm.closed THEN [w3 EXCEPT !.rv = APR_EOF, !.at = "ret"]
       ELSE IF w4.at # "transfer" THEN w4
       ELSE IF w4.bm = w.bm /\ w4.remain = w.remain
       THEN \* nothing changed and nothing will: the loop never ends
            [w4 EXCEPT !.at = "spin"]
       ELSE Transfer(w4)

h2_beam_receive(w) ==
    LET rb == IF w.readbytes <= 0 THEN w.readall ELSE w.readbytes
    IN Transfer([w EXCEPT !.readbytes = rb, !.remain = rb])

h2_beam_report_consumption(w) == report_consumption(w, TRUE)

\* a teardown that leaves the proxies of the registry as they are
beam_cleanup_NoDetach(w, from_pool) ==
    LET orphans == {w.bm.recv_buffer[i].n : i \in 1..Len(w.bm.recv_buffer)}
                   \ {NONE}
        w1 == [w EXCEPT !.bm.cons_io_cb = IF from_pool THEN FALSE ELSE @,
                        !.bm.recv_buffer = <<>>,
                        !.held = @ \cup orphans]
        w2 == report_consumption(
                  h2_blist_cleanup(r_purge_sent(w1), "send_list"), FALSE)
    IN h2_blist_cleanup(h2_blist_cleanup(w2, "purge_list"), "hold_list")

\* a beam_cleanup that leaves hold_list as it is
beam_cleanup_KeepsHold(w, from_pool) ==
    LET orphans == {w.bm.recv_buffer[i].n : i \in 1..Len(w.bm.recv_buffer)}
                   \ {NONE}
        w1 == [w EXCEPT !.bm.cons_io_cb = IF from_pool THEN FALSE ELSE @,
                        !.bm.recv_buffer = <<>>,
                        !.held = @ \cup orphans]
        w2 == report_consumption(
                  h2_blist_cleanup(r_purge_sent(w1), "send_list"), FALSE)
        reg == {w2.bm.proxies[i] : i \in 1..Len(w2.bm.proxies)}
        w3 == [w2 EXCEPT
                 !.bm.proxies = <<>>,
                 !.px = [m \in DOMAIN @ |->
                           IF m \in reg
                           THEN [beam |-> FALSE, bsender |-> NULL]
                           ELSE @[m]]]
    IN h2_blist_cleanup(w3, "purge_list")

\* beam_cleanup and the beam_send_cleanup it ends with; no lock is taken
beam_cleanup(w, from_pool) ==
    LET orphans == {w.bm.recv_buffer[i].n : i \in 1..Len(w.bm.recv_buffer)}
                   \ {NONE}
        w1 == [w EXCEPT !.bm.cons_io_cb = IF from_pool THEN FALSE ELSE @,
                        !.bm.recv_buffer = <<>>,
                        !.held = @ \cup orphans]
        w2 == report_consumption(
                  h2_blist_cleanup(r_purge_sent(w1), "send_list"), FALSE)
        reg == {w2.bm.proxies[i] : i \in 1..Len(w2.bm.proxies)}
        w3 == [w2 EXCEPT
                 !.bm.proxies = <<>>,
                 !.px = [m \in DOMAIN @ |->
                           IF m \in reg
                           THEN [beam |-> FALSE, bsender |-> NULL]
                           ELSE @[m]]]
    IN h2_blist_cleanup(h2_blist_cleanup(w3, "purge_list"), "hold_list")

\* --------------------------------------------------------------- threads
Idle ==
    [pc |-> "idle", op |-> "none", bb |-> <<>>, block |-> APR_NONBLOCK_READ,
     was_empty |-> FALSE, rv |-> "none", cbs |-> {}, len |-> 0,
     readbytes |-> 0, remain |-> 0, readall |-> 0, rbb |-> <<>>,
     got |-> 0, left |-> 0, aborted0 |-> FALSE, closed0 |-> FALSE,
     n |-> NONE]

\* the record a critical section of thread record T starts from
World(T) ==
    [bm |-> beam, px |-> proxy, held |-> held, freed |-> freed,
     nextId |-> nextId, enq |-> enq, recvLog |-> recvLog, rbb |-> R.rbb,
     bcast |-> FALSE, at |-> "ret", space_left |-> 0,
     transferred |-> 0, transferred_buckets |-> 0,
     bb |-> T.bb, block |-> T.block, was_empty |-> T.was_empty,
     rv |-> T.rv, cbs |-> T.cbs, len |-> T.len,
     readbytes |-> T.readbytes, remain |-> T.remain, readall |-> T.readall,
     got |-> 0]

\* the thread record after a critical section that ended as w says; a
\* call that has returned has no locals left, only how it was called, its
\* status, and how many buckets it got (receive) or left (send) in the
\* caller's brigade
After(T, w) ==
    IF w.at = "ret"
    THEN [Idle EXCEPT !.pc = "ret", !.op = T.op, !.rv = w.rv, !.cbs = w.cbs,
                      !.block = T.block,
                      !.got = w.got, !.left = Len(w.bb),
                      !.aborted0 = T.aborted0, !.closed0 = T.closed0]
    ELSE [T EXCEPT !.pc = w.at, !.bb = w.bb, !.was_empty = w.was_empty,
                   !.rv = w.rv, !.cbs = w.cbs, !.len = w.len,
                   !.readbytes = w.readbytes, !.remain = w.remain]

\* the shared state after a critical section of thread me
Shared(w, me) ==
    /\ beam' = w.bm
    /\ proxy' = w.px
    /\ held' = w.held
    /\ freed' = w.freed
    /\ nextId' = w.nextId
    /\ enq' = w.enq
    /\ recvLog' = w.recvLog
    /\ lock' = IF w.at = "spin" THEN me ELSE "free"
    /\ waiting' = (IF w.bcast THEN {} ELSE waiting \ {me})
                   \cup (IF w.at = "wait" THEN {me} ELSE {})

SenderDoes(T, w) ==
    /\ Shared(w, "s")
    /\ S' = After(T, w)
    /\ R' = R

\* a receiver bucket that stands for a bucket of the sender
Enqueued(b) == b.id # NULL

\* what h2_beam_receive leaves in the caller's brigade when it returns
Returned(w) ==
    IF w.at = "ret" /\ w.bb # <<>>
    THEN [w EXCEPT !.recvLog = @ \o Flat(SelectSeq(w.bb, Enqueued)),
                   !.held = @ \cup ({w.bb[i].n : i \in 1..Len(w.bb)}
                                    \ {NONE}),
                   !.got = Len(w.bb),
                   !.bb = <<>>]
    ELSE w

ReceiverDoes(T, w) ==
    /\ Shared(Returned(w), "r")
    /\ R' = [After(T, Returned(w)) EXCEPT !.rbb = w.rbb]
    /\ S' = S

Start(T, op) ==
    [T EXCEPT !.op = op, !.rv = APR_SUCCESS,
              !.aborted0 = beam.aborted, !.closed0 = beam.closed]

\* a thread may enter the beam: a call that returned is seen to return
\* before anything else happens
Ready(T) == T.pc = "idle" /\ S.pc # "ret" /\ R.pc # "ret"
Resumes(T, pc) == T.pc = pc /\ S.pc # "ret" /\ R.pc # "ret"

Init ==
    /\ beam \in
         [send_list : {<<>>}, hold_list : {<<>>}, purge_list : {<<>>},
          proxies : {<<>>}, recv_buffer : {<<>>},
          sent_bytes : {0}, received_bytes : {0},
          cons_bytes_reported : {0}, buckets_sent : {0},
          max_buf_size : BufSizes, timeout : Timeouts,
          copy_files : CopyFiles,
          closed : {FALSE}, aborted : {FALSE}, close_sent : {FALSE},
          cons_ev_cb : {TRUE}, cons_io_cb : {TRUE},
          was_empty_cb : {TRUE}, send_block_cb : {TRUE}]
    /\ proxy = <<>>
    /\ lock = "free"
    /\ waiting = {}
    /\ S = Idle
    /\ R = Idle
    /\ held = {}
    /\ freed = [i \in BucketIds |-> 0]
    /\ nextId = 1
    /\ enq = 0
    /\ recvLog = <<>>
    /\ offered = 0

\* ---------------------------------------------------------------- sender
S_Send(bb, block) ==
    /\ Ready(S) /\ lock = "free"
    /\ offered + Len(bb) <= MaxBuckets
    /\ offered' = offered + Len(bb)
    /\ LET T == [Start(S, "send") EXCEPT !.bb = bb, !.block = block]
       IN SenderDoes(T, h2_beam_send(World(T)))

\* apr_thread_cond_wait returns in wait_not_full or wait_empty
S_Wake ==
    /\ Resumes(S, "wait") /\ lock = "free" /\ "s" \notin waiting
    /\ SenderDoes(S, IF S.op = "send"
                     THEN SendAfterWait(wait_not_full(World(S), APR_SUCCESS))
                     ELSE wait_empty(World(S), APR_SUCCESS))
    /\ UNCHANGED offered

\* the byte-count callback has returned: lock again and go on
S_IoDone ==
    /\ Resumes(S, "io") /\ lock = "free"
    /\ SenderDoes(S, LET w == report_consumption_relock(World(S))
                     IN IF S.op = "close" THEN CloseEnd(w) ELSE w)
    /\ UNCHANGED offered

S_Close ==
    /\ Ready(S) /\ lock = "free"
    /\ LET T == Start(S, "close")
       IN SenderDoes(T, h2_beam_close_sender(World(T)))
    /\ UNCHANGED offered

S_Abort ==
    /\ Ready(S) /\ lock = "free"
    /\ LET T == Start(S, "abort")
       IN SenderDoes(T, h2_beam_abort_sender(World(T)))
    /\ UNCHANGED offered

S_WaitEmpty(block) ==
    /\ Ready(S) /\ lock = "free"
    /\ LET T == [Start(S, "wait_empty") EXCEPT !.block = block]
       IN SenderDoes(T, wait_empty(World(T), APR_SUCCESS))
    /\ UNCHANGED offered

\* h2_beam_destroy (from_pool = FALSE) or beam_pool_cleanup (TRUE)
S_Destroy(from_pool) ==
    /\ Ready(S)
    /\ LET T == Start(S, "destroy")
           w == beam_cleanup(World(T), from_pool)
       IN /\ beam' = w.bm
          /\ proxy' = w.px
          /\ held' = w.held
          /\ freed' = w.freed
          /\ S' = [After(T, w) EXCEPT !.pc = "destroyed"]
    /\ UNCHANGED <<lock, waiting, R, nextId, enq, recvLog, offered>>

\* the call has returned to the sender's code
S_Return ==
    /\ S.pc = "ret"
    /\ S' = Idle
    /\ UNCHANGED <<beam, proxy, lock, waiting, R, held, freed, nextId, enq,
                   recvLog, offered>>

\* -------------------------------------------------------------- receiver
R_Receive(block, readbytes, readall) ==
    /\ Ready(R) /\ lock = "free" /\ S.pc # "destroyed"
    /\ LET T == [Start(R, "receive") EXCEPT !.block = block,
                                            !.readbytes = readbytes,
                                            !.readall = readall]
       IN ReceiverDoes(T, h2_beam_receive(World(T)))
    /\ UNCHANGED offered

\* wait_not_empty after its apr_thread_cond_wait, entered with rv0
ReceiveAfterWait(w, rv0) ==
    LET w1 == wait_not_empty(w, rv0)
    IN IF w1.at = "transfer" THEN Transfer(w1) ELSE w1

R_Wake ==
    /\ Resumes(R, "wait") /\ lock = "free" /\ "r" \notin waiting
    /\ ReceiverDoes(R, ReceiveAfterWait(World(R), APR_SUCCESS))
    /\ UNCHANGED offered

\* apr_brigade_destroy of recv_buffer_cleanup, one bucket of it
R_RbcDestroy ==
    /\ Resumes(R, "rbc") /\ lock = "free" /\ R.rbb # <<>>
    /\ ReceiverDoes(R,
           [beam_bucket_destroy([World(R) EXCEPT !.rbb = Tail(@)],
                                Head(R.rbb).n)
            EXCEPT !.at = "rbc"])
    /\ UNCHANGED offered

\* recv_buffer_cleanup locks again and the caller of it goes on
R_RbcDone ==
    /\ Resumes(R, "rbc") /\ lock = "free" /\ R.rbb = <<>>
    /\ ReceiverDoes(R,
           LET w == recv_buffer_cleanup_relock(World(R))
           IN IF R.op = "abort" THEN h2_beam_abort_end(w)
              ELSE IF R.op = "close" THEN h2_beam_close_end(w)
              ELSE [w EXCEPT !.rv = APR_ECONNABORTED, !.at = "ret"])
    /\ UNCHANGED offered

R_Close ==
    /\ Ready(R) /\ lock = "free" /\ S.pc # "destroyed"
    /\ LET T == Start(R, "close")
       IN ReceiverDoes(T, h2_beam_close_receiver(World(T)))
    /\ UNCHANGED offered

R_Abort ==
    /\ Ready(R) /\ lock = "free" /\ S.pc # "destroyed"
    /\ LET T == Start(R, "abort")
       IN ReceiverDoes(T, h2_beam_abort_receiver(World(T)))
    /\ UNCHANGED offered

R_Report ==
    /\ Ready(R) /\ lock = "free" /\ S.pc # "destroyed"
    /\ LET T == Start(R, "report")
       IN ReceiverDoes(T, h2_beam_report_consumption(World(T)))
    /\ UNCHANGED offered

R_IoDone ==
    /\ Resumes(R, "io") /\ lock = "free"
    /\ ReceiverDoes(R, report_consumption_relock(World(R)))
    /\ UNCHANGED offered

\* the receiver destroys its buckets of proxy n
R_Drop(n) ==
    /\ Ready(R) /\ lock = "free" /\ n \in held
    /\ LET w == beam_bucket_destroy([World(R) EXCEPT !.held = @ \ {n}], n)
       IN /\ Shared(w, "r")
          /\ R' = R
          /\ S' = S
    /\ UNCHANGED offered

R_Return ==
    /\ R.pc = "ret"
    /\ R' = Idle
    /\ UNCHANGED <<beam, proxy, lock, waiting, S, held, freed, nextId, enq,
                   recvLog, offered>>

Next ==
    \/ \E bb \in Brigades, block \in BlockModes : S_Send(bb, block)
    \/ S_Wake
    \/ S_IoDone
    \/ S_Close
    \/ S_Abort
    \/ \E block \in BlockModes : S_WaitEmpty(block)
    \/ \E from_pool \in BOOLEAN : S_Destroy(from_pool)
    \/ S_Return
    \/ \E block \in BlockModes, readbytes \in ReadBytes :
          \E readall \in (IF readbytes <= 0 THEN ReadAllValues ELSE {0}) :
             R_Receive(block, readbytes, readall)
    \/ R_Wake
    \/ R_RbcDestroy
    \/ R_RbcDone
    \/ R_Close
    \/ R_Abort
    \/ R_Report
    \/ R_IoDone
    \/ \E n \in held : R_Drop(n)
    \/ R_Return

Spec == Init /\ [][Next]_vars

\* The calls in which a thread may be suspended, with what can wake it,
\* and the scheduling the code relies on: a thread that was woken gets the
\* mutex and runs, a brigade destroy comes back, a call that has returned
\* is seen to return.
NextLive ==
    \/ \E bb \in Brigades, block \in BlockModes : S_Send(bb, block)
    \/ S_Wake
    \/ S_IoDone
    \/ S_Close
    \/ S_Abort
    \/ \E block \in BlockModes : S_WaitEmpty(block)
    \/ S_Return
    \/ \E block \in BlockModes, readbytes \in ReadBytes :
          \E readall \in (IF readbytes <= 0 THEN ReadAllValues ELSE {0}) :
             R_Receive(block, readbytes, readall)
    \/ R_Wake
    \/ R_RbcDestroy
    \/ R_RbcDone
    \/ R_Close
    \/ R_Abort
    \/ R_Return

\* what S_Wake, R_Wake, S_IoDone, and R_RbcDestroy and R_RbcDone wait for
S_Woken == S.pc = "wait" /\ lock = "free" /\ "s" \notin waiting
R_Woken == R.pc = "wait" /\ lock = "free" /\ "r" \notin waiting
S_InIo == S.pc = "io" /\ lock = "free"
R_InRbc == R.pc = "rbc" /\ lock = "free"

\* Each of these steps ends what it waits for, and only the return of the
\* other thread's call can stand in its way: fairness of it says that the
\* thread does not stay there for ever.
Scheduling ==
    /\ []<>~S_Woken /\ []<>~R_Woken
    /\ []<>~S_InIo /\ []<>~R_InRbc
    /\ WF_vars(S_Return) /\ WF_vars(R_Return)

SpecLive == Init /\ [][NextLive]_vars /\ Scheduling

\* ------------------------------------------- the order of deferred cleanup
\* One brigade of up to HoldLen buckets, heap buckets of one byte, FLUSH
\* and EOS, sent into the new beam; the receiver then receives and destroys
\* its buckets in any order.
HoldLen == 3
HoldBuckets ==
    [type : {"HEAP"}, length : {1}, refcount : {1}]
    \cup [type : {"EOS", "FLUSH"}, length : {0}, refcount : {1}]
HoldBrigades == UNION {[1..n -> HoldBuckets] : n \in 1..HoldLen}

S_SendHold(bb) ==
    /\ Ready(S) /\ lock = "free"
    /\ offered = 0
    /\ offered' = Len(bb)
    /\ LET T == [Start(S, "send") EXCEPT !.bb = bb,
                                         !.block = APR_NONBLOCK_READ]
       IN SenderDoes(T, h2_beam_send(World(T)))

NextHold ==
    \/ \E bb \in HoldBrigades : S_SendHold(bb)
    \/ S_Return
    \/ \E readbytes \in ReadBytes :
          \E readall \in (IF readbytes <= 0 THEN ReadAllValues ELSE {0}) :
             R_Receive(APR_NONBLOCK_READ, readbytes, readall)
    \/ \E n \in held : R_Drop(n)
    \/ R_Return

SpecHold == Init /\ [][NextHold]_vars

\* ------------------------------------- teardown against the drop of a proxy
\* beam_bucket_destroy in its steps: it reads d->beam without the mutex,
\* h2_beam_emitted then takes the mutex, and does its work under it.  The
\* sender sends without blocking, the receiver receives and destroys its
\* buckets, and the sender tears the beam down at any moment: beam_cleanup
\* takes no mutex and so needs none to be free.

\* apr_bucket_shared_destroy and the test of d->beam, for the receiver's
\* bucket of proxy n
R_DropCheck(n) ==
    /\ Ready(R) /\ n \in held
    /\ held' = held \ {n}
    /\ IF Refs([World(R) EXCEPT !.held = @ \ {n}], n) > 0
       THEN R' = R /\ proxy' = proxy
       ELSE IF proxy[n].beam
       THEN /\ R' = [R EXCEPT !.pc = "emit", !.op = "drop", !.n = n]
            /\ proxy' = proxy
       ELSE /\ R' = R
            /\ proxy' = [m \in DOMAIN proxy \ {n} |-> proxy[m]]
    /\ UNCHANGED <<beam, lock, waiting, S, freed, nextId, enq, recvLog,
                   offered>>

\* apr_thread_mutex_lock of h2_beam_emitted
R_EmitLock ==
    /\ R.pc = "emit" /\ lock = "free"
    /\ lock' = "r"
    /\ R' = [R EXCEPT !.pc = "emitting"]
    /\ UNCHANGED <<beam, proxy, waiting, S, held, freed, nextId, enq,
                   recvLog, offered>>

\* h2_beam_emitted under its mutex, and apr_bucket_free of the proxy.  On
\* a beam torn down meanwhile H2_BPROXY_REMOVE works on a proxy that is
\* unlinked already and on memory given back; of that only what stays
\* within the lists is kept here.
R_EmitBody ==
    /\ R.pc = "emitting" /\ lock = "r"
    /\ LET w == h2_beam_emitted(World(R), R.n)
       IN Shared([w EXCEPT !.px = [m \in DOMAIN @ \ {R.n} |-> @[m]]], "r")
    /\ R' = Idle
    /\ S' = S
    /\ UNCHANGED offered

NextRace ==
    \/ \E bb \in Brigades : S_Send(bb, APR_NONBLOCK_READ)
    \/ S_IoDone
    \/ S_Return
    \/ \E from_pool \in BOOLEAN : S_Destroy(from_pool)
    \/ \E readbytes \in 1..MaxRead :
          R_Receive(APR_NONBLOCK_READ, readbytes, 0)
    \/ R_Return
    \/ \E n \in held : R_DropCheck(n)
    \/ R_EmitLock
    \/ R_EmitBody

SpecRace == Init /\ [][NextRace]_vars

\* ------------------------------------------------------------ properties
\* what has left send_list towards the receiver, then what still waits
InTransit ==
    recvLog \o Flat(SelectSeq(beam.recv_buffer, Enqueued))
            \o Flat(beam.send_list)

\* C1: on a beam that is not aborted, the bytes and markers the receiver
\* has got over all its receives, then those parked in recv_buffer, then
\* those still in send_list, are exactly what was put into send_list, in
\* that order: nothing lost, nothing twice, nothing out of order.
C1_InOrder ==
    (~beam.aborted /\ R.op # "close" /\ S.pc # "destroyed")
        => InTransit = [i \in 1..enq |-> i - 1]

\* a receive has returned part of a bucket, the rest of it is parked in
\* recv_buffer and more waits in send_list
C1_Witness ==
    /\ ~beam.aborted /\ S.pc # "destroyed"
    /\ recvLog # <<>>
    /\ beam.recv_buffer # <<>>
    /\ beam.send_list # <<>>

\* C2: with timeout 0 the sender is never suspended for space while the
\* receiver is suspended for data, neither of them woken.
C2_NoMutualWait ==
    ~(/\ beam.timeout = 0
      /\ S.pc = "wait" /\ S.op = "send"
      /\ R.pc = "wait" /\ R.op = "receive"
      /\ waiting = {"s", "r"})

\* C3: with max_buf_size N > 0 what calc_buffered counts never exceeds N.
C3_Bounded ==
    beam.max_buf_size > 0 => calc_buffered(beam) <= beam.max_buf_size

\* C4: sent_bytes >= received_bytes >= cons_bytes_reported in every state.
C4_Counters ==
    /\ beam.sent_bytes >= beam.received_bytes
    /\ beam.received_bytes >= beam.cons_bytes_reported

\* C5: aborted is never reset, and a send or receive called on an aborted
\* beam returns APR_ECONNABORTED, the receive without a bucket for the
\* caller.
C5_AbortSticky ==
    /\ [](S.pc = "ret" /\ S.op = "send" /\ S.aborted0
             => S.rv = APR_ECONNABORTED)
    /\ [](R.pc = "ret" /\ R.op = "receive" /\ R.aborted0
             => R.rv = APR_ECONNABORTED /\ R.got = 0)
    /\ [][beam.aborted => beam'.aborted /\ (R'.pc = "ret" => recvLog' = recvLog)]_vars

\* a receive called on an aborted beam that still had buckets in send_list
\* has returned
C5_Witness ==
    /\ R.pc = "ret" /\ R.op = "receive" /\ R.aborted0
    /\ beam.send_list # <<>>

\* the sender has closed, the EOS is delivered, nothing is buffered
Drained ==
    /\ beam.closed /\ beam.close_sent /\ ~beam.aborted
    /\ buffer_is_empty(beam)
    /\ S.pc # "destroyed"

\* C6: once the sender has closed, the receiver has drained the beam and
\* got the EOS, the beam stays drained, so that every receive from then on
\* returns APR_EOF and leaves nothing in the caller's brigade.
C6_EofAfterEos ==
    [][Drained =>
          /\ beam'.aborted \/ S'.pc = "destroyed" \/ buffer_is_empty(beam')
          /\ (R.pc = "idle" /\ R'.pc = "ret" /\ R'.op = "receive")
                => (R'.rv = APR_EOF /\ R'.got = 0)]_vars

\* C7: a send with buckets on a closed beam that is not aborted leaves
\* send_list as it was: nothing of it is enqueued.
C7_ClosedSendDiscards ==
    [][(/\ beam.closed /\ ~beam.aborted
        /\ S.pc = "idle" /\ offered' > offered)
           => (beam'.send_list = beam.send_list /\ enq' = enq)]_vars

\* C8: no sender bucket is freed twice, none is freed while a proxy still
\* points to it, and after teardown every bucket the beam took is freed.
C8_FreedOnce ==
    /\ \A id \in BucketIds : freed[id] <= 1
    /\ \A n \in DOMAIN proxy :
          proxy[n].bsender # NULL => freed[proxy[n].bsender] = 0
    /\ S.pc = "destroyed" => \A id \in 1..(nextId - 1) : freed[id] = 1

\* the sender has freed a bucket whose proxy is gone while the receiver
\* still holds the proxy of another bucket
C8_Witness ==
    /\ S.pc # "destroyed"
    /\ \E id \in BucketIds : freed[id] = 1
    /\ \E n \in DOMAIN proxy : proxy[n].bsender # NULL

\* C9: the sender bucket of every proxy is a bucket of hold_list (and of no
\* other list, and not freed), or the proxy's reference is NULL.
C9_ProxyInHold ==
    \A n \in DOMAIN proxy :
        \/ proxy[n].bsender = NULL
        \/ /\ proxy[n].bsender \in Ids(beam.hold_list)
           /\ proxy[n].bsender \notin Ids(beam.send_list)
           /\ proxy[n].bsender \notin Ids(beam.purge_list)
           /\ freed[proxy[n].bsender] = 0

\* teardown has detached a proxy the receiver still holds, and another
\* proxy was emitted before
C9_Witness ==
    /\ S.pc = "destroyed"
    /\ \E n \in DOMAIN proxy : ~proxy[n].beam /\ proxy[n].bsender = NULL
    /\ beam.buckets_sent > Cardinality(DOMAIN proxy)

\* C10: no callback is invoked by a thread that holds beam->lock.
C10_CallbacksUnlocked ==
    \A c \in S.cbs \cup R.cbs : ~c.locked

\* C11: a sender suspended in a blocking send and a receiver suspended in
\* a blocking receive each come back with APR_ECONNABORTED once the beam
\* is aborted by h2_beam_abort (closed is not set: the abort is no
\* receiver close).
C11_AbortWakes ==
    /\ (S.pc = "wait" /\ S.op = "send" /\ beam.aborted /\ ~beam.closed)
          ~> (S.pc = "ret" /\ S.op = "send" /\ S.rv = APR_ECONNABORTED)
    /\ (R.pc = "wait" /\ R.op = "receive" /\ beam.aborted)
          ~> (R.pc = "ret" /\ R.op = "receive" /\ R.rv = APR_ECONNABORTED)

\* a send that began on a beam not aborted, was suspended, and has come
\* back with APR_ECONNABORTED
C11_Witness ==
    /\ S.pc = "ret" /\ S.op = "send" /\ ~S.aborted0
    /\ S.rv = APR_ECONNABORTED
    /\ ~beam.closed

\* C12: a sender suspended in a blocking send comes back with
\* APR_ECONNABORTED once the receiver has called h2_beam_close.
C12_CloseWakes ==
    (S.pc = "wait" /\ S.op = "send" /\ beam.closed)
        ~> (S.pc = "ret" /\ S.op = "send" /\ S.rv = APR_ECONNABORTED)

\* C13: whenever aborted is set, recv_buffer is empty.
C13_AbortedNoRecvBuffer ==
    beam.aborted => beam.recv_buffer = <<>>

\* C14: once aborted is set, send_list gains no bucket, and a send called
\* then returns APR_ECONNABORTED.
C14_AbortedNoEnqueue ==
    [][beam.aborted =>
          /\ Ids(beam'.send_list) \subseteq Ids(beam.send_list)
          /\ (S.pc = "idle" /\ S'.pc = "ret" /\ S'.op = "send")
                => S'.rv = APR_ECONNABORTED]_vars

\* C15: only a blocking call is ever suspended; a non-blocking receive
\* called on an open, not aborted, empty beam returns APR_EAGAIN with
\* nothing for the caller; a non-blocking send gets APR_EAGAIN only with
\* no space left, returns it with buckets left in the caller's brigade,
\* and returns APR_SUCCESS only with none left.
C15_NonBlocking ==
    /\ [](S.pc = "wait" => S.block = APR_BLOCK_READ)
    /\ [](R.pc = "wait" => R.block = APR_BLOCK_READ)
    /\ [][(/\ S.pc = "idle" /\ S'.op = "send"
           /\ S'.block = APR_NONBLOCK_READ /\ S'.rv = APR_EAGAIN)
              => calc_space_left(beam') = 0]_vars
    /\ []((S.pc = "ret" /\ S.op = "send" /\ S.block = APR_NONBLOCK_READ)
            => /\ S.rv = APR_EAGAIN => S.left > 0
               /\ S.rv = APR_SUCCESS => S.left = 0)
    /\ [][(/\ R.pc = "idle" /\ R'.op = "receive"
           /\ R'.block = APR_NONBLOCK_READ
           /\ ~beam.aborted /\ ~beam.closed /\ buffer_is_empty(beam))
              => (/\ R'.pc = "ret" /\ R'.rv = APR_EAGAIN /\ R'.got = 0
                  /\ recvLog' = recvLog)]_vars

\* a non-blocking send has come back with APR_EAGAIN, part of its brigade
\* enqueued and the rest left to the caller
C15_Witness ==
    /\ S.pc = "ret" /\ S.op = "send" /\ S.block = APR_NONBLOCK_READ
    /\ S.rv = APR_EAGAIN /\ S.left > 0
    /\ beam.send_list # <<>>

\* C16: in the deferred cleanup a metadata bucket never overtakes data:
\* no step moves a metadata bucket from hold_list to purge_list while a
\* data bucket that stood before it in hold_list stays in hold_list.
C16_MetaAfterData ==
    [][\A i \in 1..Len(beam.hold_list), j \in 1..Len(beam.hold_list) :
          (/\ i < j
           /\ ~APR_BUCKET_IS_METADATA(beam.hold_list[i])
           /\ APR_BUCKET_IS_METADATA(beam.hold_list[j])
           /\ beam.hold_list[j].id \in Ids(beam'.purge_list))
             => beam.hold_list[i].id \notin Ids(beam'.hold_list)]_vars

\* C17: a file bucket beamed without a copy leaves hold_list once the
\* receiver has destroyed the brigade it received it in.  The destroy of
\* the receiver's file bucket is apr's own and calls nothing of the beam,
\* so a state in which the receiver is outside every call and holds no
\* proxy bucket is also the state after that destroy: in it hold_list
\* has no file bucket.
C17_FileLeavesHold ==
    (R.pc = "idle" /\ held = {} /\ S.pc # "destroyed")
       => \A i \in 1..Len(beam.hold_list) :
             ~APR_BUCKET_IS_FILE(beam.hold_list[i])

\* C18: teardown, in whatever state it runs, leaves send_list, hold_list,
\* purge_list and the registry of proxies empty and recv_buffer cleared,
\* and every proxy still alive without beam and without sender bucket;
\* the destroy of a proxy after teardown changes nothing of the beam.
C18_Teardown ==
    [][/\ (S.pc # "destroyed" /\ S'.pc = "destroyed")
          => /\ beam'.send_list = <<>>
             /\ beam'.hold_list = <<>>
             /\ beam'.purge_list = <<>>
             /\ beam'.proxies = <<>>
             /\ beam'.recv_buffer = <<>>
             /\ \A n \in DOMAIN proxy' :
                   ~proxy'[n].beam /\ proxy'[n].bsender = NULL
       /\ (S.pc = "destroyed" /\ DOMAIN proxy' # DOMAIN proxy
             /\ DOMAIN proxy' \subseteq DOMAIN proxy)
          => beam' = beam /\ freed' = freed]_vars

\* teardown has run while the receiver held the bucket of a proxy
C18_Witness ==
    /\ S.pc = "destroyed"
    /\ \E n \in held : n \in DOMAIN proxy /\ ~proxy[n].beam

\* C19: h2_beam_close by the sender sets closed, changes neither aborted
\* nor what is buffered, and returns APR_SUCCESS unless the beam is aborted;
\* a receive of readbytes > 0 on the closed, not aborted beam still gets
\* what is buffered.
\* h2_beam_close by the receiver leaves recv_buffer empty and aborted set
\* and returns APR_ECONNABORTED.
C19_CloseByInitiator ==
    /\ []((S.pc = "ret" /\ S.op = "close")
            => /\ beam.closed
               /\ S.rv = (IF beam.aborted THEN APR_ECONNABORTED
                          ELSE APR_SUCCESS))
    /\ [][(S'.op = "close" /\ S' # S)
            => /\ beam'.aborted = beam.aborted
               /\ beam'.send_list = beam.send_list
               /\ beam'.recv_buffer = beam.recv_buffer]_vars
    /\ [][\A block \in BlockModes, readbytes \in 1..MaxRead :
            (/\ beam.closed /\ ~beam.aborted /\ ~buffer_is_empty(beam)
             /\ R_Receive(block, readbytes, 0))
            => R'.pc = "ret" /\ R'.rv = APR_SUCCESS /\ R'.got > 0]_vars
    /\ []((R.pc = "ret" /\ R.op = "close")
            => /\ beam.closed /\ beam.aborted
               /\ beam.recv_buffer = <<>>
               /\ R.rv = APR_ECONNABORTED)

\* the receiver has closed the beam that the sender had closed with data
\* still in send_list
C19_Witness ==
    /\ R.pc = "ret" /\ R.op = "close"
    /\ R.closed0 /\ ~R.aborted0
    /\ beam.send_list # <<>>

\* C20: closed, aborted and close_sent are never reset once set, and
\* close_sent is set only when closed is set already.
C20_FlagOrder ==
    [][/\ beam.closed => beam'.closed
       /\ beam.aborted => beam'.aborted
       /\ beam.close_sent => beam'.close_sent
       /\ (~beam.close_sent /\ beam'.close_sent) => beam.closed]_vars

\* C21: a blocking send of more in-memory bytes than max_buf_size into the
\* empty open beam cannot return at once: it calls send_block_cb and is
\* suspended; every suspended send has called send_block_cb; a blocking
\* send on a beam that was open returns APR_SUCCESS only with its whole
\* brigade enqueued, and at the moment it has enqueued the last of it no
\* more than max_buf_size in-memory bytes wait in send_list, so that of L
\* bytes sent at least L - max_buf_size have left send_list.
C21_Backpressure ==
    /\ [][\A bb \in Brigades :
            (/\ ~beam.aborted /\ ~beam.closed /\ buffer_is_empty(beam)
             /\ \A i \in 1..Len(bb) : bb[i].type = "HEAP"
             /\ apr_brigade_length(bb) > beam.max_buf_size
             /\ S_Send(bb, APR_BLOCK_READ))
            => /\ S'.pc = "wait"
               /\ [cb |-> "send_block_cb", locked |-> TRUE] \in S'.cbs]_vars
    /\ []((S.pc = "wait" /\ S.op = "send")
            => [cb |-> "send_block_cb", locked |-> TRUE] \in S.cbs)
    /\ []((/\ S.pc = "ret" /\ S.op = "send" /\ S.block = APR_BLOCK_READ
            /\ ~S.closed0 /\ S.rv = APR_SUCCESS)
            => S.left = 0)
    /\ [][(/\ S.pc \in {"idle", "wait"} /\ S'.pc \in {"io", "ret"}
           /\ S'.op = "send" /\ S'.block = APR_BLOCK_READ
           /\ ~S'.closed0 /\ S'.rv = APR_SUCCESS)
            => calc_buffered(beam') <= beam'.max_buf_size]_vars

\* a blocking send of more bytes than max_buf_size has returned
\* APR_SUCCESS after it was suspended
C21_Witness ==
    /\ S.pc = "ret" /\ S.op = "send" /\ S.block = APR_BLOCK_READ
    /\ ~S.closed0 /\ S.rv = APR_SUCCESS /\ S.left = 0
    /\ [cb |-> "send_block_cb", locked |-> TRUE] \in S.cbs
    /\ beam.sent_bytes > beam.max_buf_size

\* C22: a step of the receiver (receive, destroy of a proxy, close, abort)
\* frees no bucket of the sender; a step of the sender creates no proxy
\* and puts nothing into recv_buffer; buckets are freed only in the
\* sender's send, close, abort and in teardown.
C22_SenderFrees ==
    [][/\ S' = S => freed' = freed
       /\ S' # S => /\ DOMAIN proxy' \subseteq DOMAIN proxy
                    /\ beam'.recv_buffer \in {beam.recv_buffer, <<>>}
       /\ freed' # freed
            => S'.op \in {"send", "close", "abort", "destroy"}]_vars

\* the receiver has moved a bucket to purge_list and the sender has freed
\* an earlier one
C22_Witness ==
    /\ beam.purge_list # <<>>
    /\ \E i \in BucketIds : freed[i] > 0
    /\ S.pc = "idle" /\ R.pc = "idle"

C24_WaitEmptyAborted ==
    /\ (/\ S.pc = "wait" /\ S.op = "wait_empty"
        /\ beam.aborted /\ ~buffer_is_empty(beam))
          ~> (S.pc = "ret" /\ S.op = "wait_empty"
              /\ S.rv = APR_ECONNABORTED)
    /\ []((/\ S.pc = "ret" /\ S.op = "wait_empty"
            /\ S.aborted0 /\ ~buffer_is_empty(beam))
            => S.rv = APR_ECONNABORTED)
    /\ []((S.pc = "ret" /\ S.op = "wait_empty" /\ ~beam.aborted)
            => /\ S.rv \in {APR_SUCCESS, APR_EAGAIN}
               /\ S.rv = APR_SUCCESS => buffer_is_empty(beam)
               /\ S.rv = APR_EAGAIN => S.block = APR_NONBLOCK_READ)

HeapItems(bm) ==
    UNION {{bm.hold_list[i].first + j - 1 : j \in 1..bm.hold_list[i].length} :
             i \in {k \in 1..Len(bm.hold_list) :
                       APR_BUCKET_IS_HEAP(bm.hold_list[k])}}

\* the in-memory bytes among what a step has handed to the receiver
MemGot ==
    Cardinality({k \in (Len(recvLog) + 1)..Len(recvLog') :
                   recvLog'[k] \in HeapItems(beam')})

\* C26: a receive with readbytes = N > 0 hands over at most N in-memory
\* bytes; if it leaves something in recv_buffer it has handed over N of
\* them exactly; it hands over the head of recv_buffer first; and a
\* receive with readbytes <= 0 on an open beam takes all there is in
\* send_list.
C26_ReadLimit ==
    /\ [][\A block \in BlockModes, readbytes \in 1..MaxRead :
            (R_Receive(block, readbytes, 0) /\ R'.pc = "ret")
            => /\ MemGot <= readbytes
               /\ (R'.rv = APR_SUCCESS /\ beam'.recv_buffer # <<>>)
                     => MemGot = readbytes
               /\ (~beam.aborted /\ beam.recv_buffer # <<>>)
                     => /\ Len(recvLog') > Len(recvLog)
                        /\ recvLog'[Len(recvLog) + 1]
                             = Head(beam.recv_buffer).first]_vars
    /\ [][(/\ R.pc = "wait" /\ R.op = "receive" /\ R'.pc = "ret"
           /\ R.readbytes \in 1..MaxRead)
            => MemGot <= R.readbytes]_vars
    /\ [][\A block \in BlockModes, readall \in ReadAllValues :
            (/\ ~beam.aborted /\ ~beam.closed /\ beam.send_list # <<>>
             /\ R_Receive(block, 0, readall))
            => /\ R'.pc = "ret" /\ R'.rv = APR_SUCCESS
               /\ beam'.send_list = <<>>
               /\ beam'.recv_buffer = <<>>]_vars

\* thread record T has invoked was_empty_cb in its call
WasEmptyCalled(T) == \E c \in T.cbs : c.cb = "was_empty_cb"

\* C27: a send on the open beam that finds send_list and recv_buffer empty
\* and leaves something in them has invoked was_empty_cb when its first
\* critical section ends, and a call keeps the callbacks it has invoked;
\* a send that finds them not empty and is not suspended does not invoke
\* was_empty_cb.
C27_WasEmpty ==
    /\ [][\A bb \in Brigades, block \in BlockModes :
            (/\ ~beam.aborted /\ ~beam.closed
             /\ S_Send(bb, block))
            => /\ (buffer_is_empty(beam) /\ ~buffer_is_empty(beam'))
                    => WasEmptyCalled(S')
               /\ (~buffer_is_empty(beam) /\ S'.pc # "wait")
                    => ~WasEmptyCalled(S')]_vars
    /\ [][(S.op = "send" /\ S'.op = "send")
            => /\ S.cbs \subseteq S'.cbs
               /\ (S.pc = "io" /\ WasEmptyCalled(S'))
                    => WasEmptyCalled(S)]_vars

\* a send into the empty open beam has returned after it invoked
\* was_empty_cb, with its buckets in send_list
C27_Witness ==
    /\ S.pc = "ret" /\ S.op = "send" /\ S.rv = APR_SUCCESS
    /\ ~S.closed0 /\ ~S.aborted0
    /\ WasEmptyCalled(S)
    /\ beam.send_list # <<>>

\* C28: h2_beam_receive returns APR_EOF only when close_sent is set,
\* whether it returns from its first critical section or after it was
\* suspended in wait_not_empty (receives whose readbytes stays positive).
C28_EofAfterCloseSent ==
    /\ [][\A block \in BlockModes, readbytes \in 0..MaxRead :
            (/\ R_Receive(block, readbytes,
                          IF readbytes = 0 THEN APR_SIZE_MAX ELSE 0)
             /\ R'.pc = "ret" /\ R'.rv = APR_EOF)
            => beam'.close_sent]_vars
    /\ [][(/\ R.pc = "wait" /\ R.op = "receive" /\ R.readbytes > 0
           /\ R'.pc = "ret" /\ R'.rv = APR_EOF)
            => beam'.close_sent]_vars

\* C29: as long as the beam lives, the bytes reported as consumed never
\* exceed the bytes received.  Every byte count handed to cons_io_cb is
\* added to cons_bytes_reported, so the sum of the counts is bounded by it.
C29_ReportedOnce ==
    S.pc # "destroyed" => beam.cons_bytes_reported <= beam.received_bytes

\* send_list, hold_list, purge_list or the registry of proxies change
ListsChange ==
    \/ beam'.send_list # beam.send_list
    \/ beam'.hold_list # beam.hold_list
    \/ beam'.purge_list # beam.purge_list
    \/ beam'.proxies # beam.proxies

\* C30: teardown and the destroy of a proxy do not race: H2_BPROXY_REMOVE
\* is only ever applied to a proxy that is in the registry, so that each
\* proxy is unlinked once, and a step that changes the lists is made by
\* the thread that holds the mutex or can take it.
C30_NoRace ==
    /\ [][(R.pc = "emitting" /\ R'.pc = "idle")
            => \E i \in 1..Len(beam.proxies) : beam.proxies[i] = R.n]_vars
    /\ [][(S' # S /\ ListsChange) => lock \in {"free", "s"}]_vars
    /\ [][(S' = S /\ ListsChange) => lock \in {"free", "r"}]_vars

====
